---- MODULE Spec2Model ----
(***************************************************************************)
(* A model of the striped SSE dynamic-programming matrix of Bowtie 2       *)
(* (SSEMatrix, SSEData in src/sam.h): the vector buffer               *)
(* addressing, the scalar read elt(), the per-cell 16-bit mask words with  *)
(* their mutators, and the mask-driven backtrace step analyzeCell.         *)
(***************************************************************************)
EXTENDS Integers, Sequences, FiniteSets, TLC

VARIABLES
    inited_,     \* SSEMatrix::inited_
    nrow_,       \* SSEMatrix::nrow_
    ncol_,       \* SSEMatrix::ncol_
    nvecrow_,    \* SSEMatrix::nvecrow_
    nveccol_,    \* SSEMatrix::nveccol_
    wperv_,      \* SSEMatrix::wperv_
    colstride_,  \* SSEMatrix::colstride_
    rowstride_,  \* SSEMatrix::rowstride_
    bufsize,     \* SSEMatrix::buf_.size(), in vectors
    bufmem,      \* the bytes of buf_: vector index -> byte index 0..15 -> 0..255
    filled,      \* 0 before the fill, else the pattern the filler wrote
    bias_,       \* SSEData::bias_
    sc,          \* the scoring scheme handed to analyzeCell
    masks_,      \* SSEMatrix::masks_: cell index -> 16-bit word
    op,          \* the last call made on the matrix, its arguments and result
    nops,        \* number of mask-mutator calls made since the masks were zeroed
    pc,          \* where the backtrace caller stands
    row,         \* backtrace: current row
    col,         \* backtrace: current column
    ct,          \* backtrace: current matrix (E, F or H)
    out,         \* the out-parameters of the last analyzeCell call
    path,        \* H-level cells traversed by the backtrace in progress
    nbt,         \* number of backtraces started on this matrix
    nvisit,      \* analyzeCell calls made by the backtrace in progress
    start,       \* the cell <<r0, c0>> the backtrace in progress started at
    cat_,        \* EList_m128i::cat_
    list_,       \* EList_m128i::list_, a byte address (0 is NULL)
    sz_,         \* EList_m128i::sz_
    cur_,        \* EList_m128i::cur_
    heap,        \* the live blocks: address new[] returned -> the vectors stored
    tally,       \* gMemTally: category -> net amount tallied (adds minus deletes)
    lstat,       \* the buffer's life: "live", "destroyed" or "aborted"
    ev,          \* the allocator and assertion events of the last call, in order
    met,         \* the shared SSEMetrics: counter name -> value
    lock,        \* SSEMetrics::lock: 0 when free, else the thread holding it
    thr,         \* per thread: where it stands in merge, its argument o, getLock
    truncQname_, \* SamConfig::truncQname_
    qname,       \* the read name handed to printReadName, as character codes
    written      \* what printReadName wrote to the output buffer

matvars  == <<inited_, nrow_, ncol_, nvecrow_, nveccol_, wperv_, colstride_,
              rowstride_, bufsize>>
btvars   == <<pc, row, col, ct, out, path, nbt, nvisit, start>>
listvars == <<cat_, list_, sz_, cur_, heap, tally, lstat, ev>>
metvars  == <<met, lock, thr>>
namevars == <<truncQname_, qname, written>>
extvars  == <<listvars, metvars, namevars>>
vars     == <<matvars, bufmem, filled, bias_, sc, masks_, op, nops, btvars,
              extvars>>

---------------------------------------------------------------------------
(* Bounds of the model.                                                    *)

\* largest number of cells of the mask grid in the mask-mutator runs
MaskCells == 2
\* largest number of cells of a matrix that is backtraced
BtCells == 4
\* mask-mutator calls explored after the masks are zeroed
MaxOps == 2
\* largest query length (rows) and reference length (columns) of a layout run
MaxQ == 17
MaxR == 2
\* largest bias of an 8-bit problem
MaxBias == 1
\* number of fill patterns
NSeeds == 1
\* backtraces started on one filled matrix
MaxBt == 2
\* number of scoring schemes
NScorings == 3
\* capacity or size changing calls made on one EList_m128i
MaxListOps == 2
\* largest size, capacity or threshold argument of a buffer call
MaxN == 3
\* number of distinct vector values stored into the buffer
NVals == 1
\* largest factor of the counters of a per-thread metrics structure
MaxCount == 1
\* merge, reset and clear calls made on one SSEMetrics by one thread
MaxMetOps == 4

---------------------------------------------------------------------------
(* Quartet members (SSEMatrix::E, F, H, TMP).                              *)

E == 0
F == 1
H == 2
TMP == 3

---------------------------------------------------------------------------
(* C integer arithmetic: int is 32 bits two's complement, a mask word is a  *)
(* uint16_t promoted to int.  An int is modelled by its value; bit k of a  *)
(* (possibly negative) value a is (a \div 2^k) % 2, \div rounding down.    *)

UInt16 == 2 ^ 16
\* the weight of an int's sign bit is -(2^31)
SignWeight == (-(2 ^ 30)) - (2 ^ 30)

RECURSIVE AndBits(_, _, _)
AndBits(a, b, n) ==
    IF n = 0 \/ a = 0 \/ b = 0 THEN 0
    ELSE (a % 2) * (b % 2) + 2 * AndBits(a \div 2, b \div 2, n - 1)

\* the low n bits of a, n <= 31
LowBits(a, n) ==
    IF n < 31 THEN a % (2 ^ n) ELSE IF a >= 0 THEN a ELSE a - SignWeight

RECURSIVE OrBits(_, _, _)
OrBits(a, b, n) ==
    IF n = 0 THEN 0
    ELSE IF a = 0 THEN LowBits(b, n)
    ELSE IF b = 0 THEN LowBits(a, n)
    ELSE (IF (a % 2) + (b % 2) > 0 THEN 1 ELSE 0)
         + 2 * OrBits(a \div 2, b \div 2, n - 1)

\* a & b, a | b, ~a on ints: 31 value bits and the sign bit
And32(a, b) ==
    AndBits(a, b, 31) + (IF a < 0 /\ b < 0 THEN SignWeight ELSE 0)
Or32(a, b) ==
    OrBits(a, b, 31) + (IF a < 0 \/ b < 0 THEN SignWeight ELSE 0)
Not32(a) == (-a) - 1
\* a << k for the small operands the code shifts (no overflow)
Shl32(a, k) == a * 2 ^ k
\* the store back into a uint16_t lvalue keeps the low 16 bits
ToU16(a) == a % UInt16

BitAt(w, k) == (w \div 2 ^ k) % 2
\* the n-bit subfield of w starting at bit k
Field(w, k, n) == (w \div 2 ^ k) % (2 ^ n)

---------------------------------------------------------------------------
(* The mask grid.                                                          *)

CellIdx(r, c) == r * ncol_ + c

Rows == 0 .. nrow_ - 1
Cols == 0 .. ncol_ - 1

\* reportedThrough testing the bit next to the reportedThru bit
reportedThroughHBit(w) == And32(w, Shl32(1, 1)) # 0

\* SSEMatrix::reportedThrough
reportedThroughW(w) == And32(w, Shl32(1, 0)) # 0
reportedThrough(m, r, c) == reportedThroughW(m[CellIdx(r, c)])

\* SSEMatrix::setReportedThrough
setReportedThrough(m, r, c) ==
    [m EXCEPT ![CellIdx(r, c)] = ToU16(Or32(@, Shl32(1, 0)))]

\* SSEMatrix::isHMaskSet / isEMaskSet / isFMaskSet
isHMaskSet(m, r, c) == And32(m[CellIdx(r, c)], Shl32(1, 1)) # 0
isEMaskSet(m, r, c) == And32(m[CellIdx(r, c)], Shl32(1, 7)) # 0
isFMaskSet(m, r, c) == And32(m[CellIdx(r, c)], Shl32(1, 10)) # 0

\* a setter that shifts the mask one bit too far
SetterShiftedMask(w, clr, sh, mask) ==
    ToU16(Or32(ToU16(And32(w, Not32(clr))),
               Or32(Shl32(1, sh), Shl32(mask, sh + 2))))

\* a setter whose clear pattern starts one bit too high
SetterClearsHigh(w, clr, sh, mask) ==
    ToU16(Or32(ToU16(And32(w, Not32(clr * 2))),
               Or32(Shl32(1, sh), Shl32(mask, sh + 1))))

\* a setter whose clear pattern starts one bit too low
SetterClearsLow(w, clr, sh, mask) ==
    ToU16(Or32(ToU16(And32(w, Not32(clr \div 2))),
               Or32(Shl32(1, sh), Shl32(mask, sh + 1))))

\* a setter that assigns the word instead of updating its field
SetterOverwrites(w, clr, sh, mask) ==
    ToU16(Or32(Shl32(1, sh), Shl32(mask, sh + 1)))

\* The two statements shared by the three setters:
\*   masks_[i] &= ~clr;  masks_[i] |= (1 << sh | mask << (sh + 1));
Setter(w, clr, sh, mask) ==
    ToU16(Or32(ToU16(And32(w, Not32(clr))),
               Or32(Shl32(1, sh), Shl32(mask, sh + 1))))

\* SSEMatrix::hMaskSet: clears with ~(31 << 1)
hMaskSet(m, r, c, mask) ==
    [m EXCEPT ![CellIdx(r, c)] = Setter(@, Shl32(31, 1), 1, mask)]

\* SSEMatrix::eMaskSet: clears with ~(7 << 7)
eMaskSet(m, r, c, mask) ==
    [m EXCEPT ![CellIdx(r, c)] = Setter(@, Shl32(7, 7), 7, mask)]

\* SSEMatrix::fMaskSet: clears with ~(7 << 10)
fMaskSet(m, r, c, mask) ==
    [m EXCEPT ![CellIdx(r, c)] = Setter(@, Shl32(7, 10), 10, mask)]

\* the stored mask subfields: H bits 2-6, E bits 8-9, F bits 11-12
hMaskOf(w) == Field(w, 2, 5)
eMaskOf(w) == Field(w, 8, 2)
fMaskOf(w) == Field(w, 11, 2)

---------------------------------------------------------------------------
(* SSEMatrix::init and initMasks.                                          *)

\* SSEMatrix::nvecPerCell_, set by the constructor
nvecPerCell_ == 4

\* words per vector: 16 unsigned 8-bit lanes or 8 signed 16-bit lanes
WPervs == {8, 16}

\* segLen = ceil(nrow / wperv)
SegLen(nr, w) == (nr + (w - 1)) \div w

\* the fields SSEMatrix::init(nrow, ncol, wperv) leaves behind
init(nr, nc, w) ==
    [inited    |-> TRUE,
     nrow      |-> nr,
     ncol      |-> nc,
     wperv     |-> w,
     nvecrow   |-> SegLen(nr, w),
     nveccol   |-> nc,
     colstride |-> SegLen(nr, w) * nvecPerCell_,
     rowstride |-> nvecPerCell_,
     bufsize   |-> (nc + 1) * nvecPerCell_ * SegLen(nr, w)]

\* SSEMatrix::initMasks: nrow * ncol words, all zero
initMasks(nr, nc) == [i \in 0 .. nr * nc - 1 |-> 0]

MatIs(f) ==
    /\ inited_ = f.inited /\ nrow_ = f.nrow /\ ncol_ = f.ncol
    /\ wperv_ = f.wperv /\ nvecrow_ = f.nvecrow /\ nveccol_ = f.nveccol
    /\ colstride_ = f.colstride /\ rowstride_ = f.rowstride
    /\ bufsize = f.bufsize

MatBecomes(f) ==
    /\ inited_' = f.inited /\ nrow_' = f.nrow /\ ncol_' = f.ncol
    /\ wperv_' = f.wperv /\ nvecrow_' = f.nvecrow /\ nveccol_' = f.nveccol
    /\ colstride_' = f.colstride /\ rowstride_' = f.rowstride
    /\ bufsize' = f.bufsize

\* buffer memory nobody has written yet is never read by the model
NoMem == <<>>

NoOut == [empty |-> FALSE, cur |-> -1, branch |-> FALSE,
          canMoveThru |-> FALSE, reportedThru |-> FALSE]

BtIdle ==
    /\ pc = "idle" /\ row = 0 /\ col = 0 /\ ct = H /\ out = NoOut
    /\ path = {} /\ nbt = 0 /\ nvisit = 0 /\ start = <<0, 0>>

OpInit == [name |-> "init", r |-> 0, c |-> 0, arg |-> 0, ret |-> 0,
           vec |-> 0, lane |-> 0, pre |-> <<>>]

\* memory categories: the buffer's own and another one
Cats == {0, 1}

\* EList_m128i::EList_m128i: no storage, nothing tallied
ListIdle ==
    /\ cat_ = 0 /\ list_ = 0 /\ sz_ = 0 /\ cur_ = 0
    /\ heap = <<>> /\ tally = [k \in Cats |-> 0]
    /\ lstat = "live" /\ ev = <<>>

\* SSEMetrics::SSEMetrics has not run, no thread exists
MetIdle == met = <<>> /\ lock = 0 /\ thr = <<>>

\* no read name has been printed
NameIdle == truncQname_ = FALSE /\ qname = <<>> /\ written = <<>>

OthersIdle == ListIdle /\ MetIdle /\ NameIdle

---------------------------------------------------------------------------
(* Free calls of the mask interface on a freshly initialised matrix.       *)

\* the grid shapes of the mask-mutator runs
MaskShapes ==
    {s \in (1 .. MaskCells) \X (1 .. MaskCells) : s[1] * s[2] <= MaskCells}

\* mask arguments within the fields' widths
HMaskArgs == {0, 1, 2, 4, 8, 16, 31}
EFMaskArgs == 0 .. 3

MasksInit ==
    /\ \E s \in MaskShapes :
          /\ MatIs(init(s[1], s[2], 16))
          /\ masks_ = initMasks(s[1], s[2])
          /\ op = [OpInit EXCEPT !.pre = initMasks(s[1], s[2])]
    /\ bufmem = NoMem /\ filled = 0 /\ bias_ = 0 /\ sc = 0
    /\ nops = 0
    /\ BtIdle
    /\ OthersIdle

MaskCall(name, r, c, arg, m) ==
    /\ nops < MaxOps
    /\ masks_' = m
    /\ op' = [name |-> name, r |-> r, c |-> c, arg |-> arg, ret |-> 0,
               vec |-> 0, lane |-> 0, pre |-> masks_]
    /\ nops' = nops + 1
    /\ UNCHANGED <<matvars, bufmem, filled, bias_, sc, extvars, btvars>>

CallHMaskSet ==
    \E r \in Rows, c \in Cols, mask \in HMaskArgs :
        MaskCall("hMaskSet", r, c, mask, hMaskSet(masks_, r, c, mask))

CallEMaskSet ==
    \E r \in Rows, c \in Cols, mask \in EFMaskArgs :
        MaskCall("eMaskSet", r, c, mask, eMaskSet(masks_, r, c, mask))

CallFMaskSet ==
    \E r \in Rows, c \in Cols, mask \in EFMaskArgs :
        MaskCall("fMaskSet", r, c, mask, fMaskSet(masks_, r, c, mask))

CallSetReportedThrough ==
    \E r \in Rows, c \in Cols :
        MaskCall("setReportedThrough", r, c, 0,
                 setReportedThrough(masks_, r, c))

\* the matrix is initialised again for the next problem: masks are zeroed
CallInitMasks ==
    /\ nops > 0
    /\ \E s \in MaskShapes :
          /\ MatBecomes(init(s[1], s[2], 16))
          /\ masks_' = initMasks(s[1], s[2])
          /\ op' = [OpInit EXCEPT !.pre = initMasks(s[1], s[2])]
    /\ nops' = 0
    /\ UNCHANGED <<bufmem, filled, bias_, sc, extvars, btvars>>

MasksNext ==
    \/ CallHMaskSet
    \/ CallEMaskSet
    \/ CallFMaskSet
    \/ CallSetReportedThrough
    \/ CallInitMasks

SpecMasks == MasksInit /\ [][MasksNext]_vars

---------------------------------------------------------------------------
(* Claims about the mask mutators, checked under SpecMasks.                *)

MutatorNames == {"hMaskSet", "eMaskSet", "fMaskSet", "setReportedThrough"}
Cells == DOMAIN masks_
\* the word of the cell the last call addressed, after and before the call
OpWord == masks_[CellIdx(op.r, op.c)]
OpPreWord == op.pre[CellIdx(op.r, op.c)]

\* C1: after hMaskSet / eMaskSet / fMaskSet(row, col, mask) with a mask within
\* the field's width, whatever the word held before, the field's "set" bit is
\* 1 and the stored mask subfield (H bits 2-6, E bits 8-9, F bits 11-12) is
\* exactly the mask passed in.
C1_SetterStoresMask ==
    /\ op.name = "hMaskSet" =>
          BitAt(OpWord, 1) = 1 /\ hMaskOf(OpWord) = op.arg
    /\ op.name = "eMaskSet" =>
          BitAt(OpWord, 7) = 1 /\ eMaskOf(OpWord) = op.arg
    /\ op.name = "fMaskSet" =>
          BitAt(OpWord, 10) = 1 /\ fMaskOf(OpWord) = op.arg

\* C3: across hMaskSet, eMaskSet, fMaskSet and setReportedThrough calls on
\* any cells, a cell for which isHMaskSet / isEMaskSet / isFMaskSet returned
\* true before the call still returns true after it.
C3_SetBitsStay ==
    op.name \in MutatorNames =>
        \A r \in Rows, c \in Cols :
            /\ isHMaskSet(op.pre, r, c) => isHMaskSet(masks_, r, c)
            /\ isEMaskSet(op.pre, r, c) => isEMaskSet(masks_, r, c)
            /\ isFMaskSet(op.pre, r, c) => isFMaskSet(masks_, r, c)

\* eMaskSet has been called on a cell whose F mask was set, and the cell
\* still has its F mask set
C3_Witness ==
    /\ op.name = "eMaskSet"
    /\ isFMaskSet(op.pre, op.r, op.c)
    /\ isFMaskSet(masks_, op.r, op.c)

\* C4: reportedThrough is monotonic: right after setReportedThrough(row, col)
\* the cell is reportedThrough, and no hMaskSet, eMaskSet, fMaskSet or
\* setReportedThrough call on any cell makes a reportedThrough cell stop
\* being so.
C4_ReportedThroughStays ==
    /\ op.name = "setReportedThrough" => reportedThrough(masks_, op.r, op.c)
    /\ op.name \in MutatorNames =>
          \A r \in Rows, c \in Cols :
              reportedThrough(op.pre, r, c) => reportedThrough(masks_, r, c)

\* hMaskSet has been called on a cell that was already reportedThrough
C4_Witness ==
    /\ op.name = "hMaskSet"
    /\ reportedThrough(op.pre, op.r, op.c)

\* the bits of the word that belong to each mutator: the set bit and the
\* mask of its field, or the reportedThru bit
OwnBits(nm) ==
    IF nm = "hMaskSet" THEN 1 .. 6
    ELSE IF nm = "eMaskSet" THEN 7 .. 9
    ELSE IF nm = "fMaskSet" THEN 10 .. 12
    ELSE {0}

\* C21: each mask mutator changes only its own field of the addressed cell's
\* word: hMaskSet only bits 1-6, eMaskSet only bits 7-9, fMaskSet only bits
\* 10-12, setReportedThrough only bit 0; every other bit of that word and
\* the words of all other cells are as they were before the call.
C21_MutatorFrame ==
    op.name \in MutatorNames =>
        /\ DOMAIN masks_ = DOMAIN op.pre
        /\ \A k \in (0 .. 15) \ OwnBits(op.name) :
              BitAt(OpWord, k) = BitAt(OpPreWord, k)
        /\ \A i \in Cells \ {CellIdx(op.r, op.c)} : masks_[i] = op.pre[i]

\* a setter has rewritten its field in a word where another field was set,
\* on a grid with more than one cell
C21_Witness ==
    /\ op.name \in MutatorNames \ {"setReportedThrough"}
    /\ Cardinality(Cells) > 1
    /\ OpWord # OpPreWord
    /\ \E k \in (0 .. 15) \ OwnBits(op.name) : BitAt(OpPreWord, k) = 1

---------------------------------------------------------------------------
(* Vector addressing and the scalar read.                                  *)

\* SSEMatrix::evec, fvec, hvec, tmpvec (col < nveccol_) and evecUnsafe,
\* tmpvecUnsafe (col <= nveccol_): the index added to ptr()
evec(r, c)         == r * rowstride_ + c * colstride_ + E
evecUnsafe(r, c)   == r * rowstride_ + c * colstride_ + E
fvec(r, c)         == r * rowstride_ + c * colstride_ + F
hvec(r, c)         == r * rowstride_ + c * colstride_ + H
tmpvec(r, c)       == r * rowstride_ + c * colstride_ + TMP

\* tmpvecUnsafe with the two strides exchanged
tmpvecUnsafeSwapped(r, c) == r * colstride_ + c * rowstride_ + TMP

tmpvecUnsafe(r, c) == r * rowstride_ + c * colstride_ + TMP

\* bytes in a __m128i
VecBytes == 16

\* the lane of a row computed with the vector width instead of nvecrow_
roweltByWidth(r) == r \div wperv_

\* SSEMatrix::elt: rowelt, rowvec, eltvec
rowelt(r) == r \div nvecrow_
rowvec(r) == r % nvecrow_
eltvec(r, c, mat) == (c * colstride_) + (rowvec(r) * rowstride_) + mat

\* (int)((uint8_t*)(buf_.ptr() + eltvec))[rowelt]
ReadU8(mem, v, k) == mem[v * VecBytes + k]

\* (int)((int16_t*)(buf_.ptr() + eltvec))[rowelt], little-endian
ReadI16(mem, v, k) ==
    LET u == mem[v * VecBytes + 2 * k] + 256 * mem[v * VecBytes + 2 * k + 1]
    IN  IF u >= 32768 THEN u - UInt16 ELSE u

\* elt reading the 8-bit lane through a signed char pointer
eltSignedByte(r, c, mat) ==
    IF wperv_ = 16
    THEN LET u == ReadU8(bufmem, eltvec(r, c, mat), rowelt(r))
         IN  IF u >= 128 THEN u - 256 ELSE u
    ELSE ReadI16(bufmem, eltvec(r, c, mat), rowelt(r))

\* SSEMatrix::elt
elt(r, c, mat) ==
    IF wperv_ = 16
    THEN ReadU8(bufmem, eltvec(r, c, mat), rowelt(r))
    ELSE ReadI16(bufmem, eltvec(r, c, mat), rowelt(r))

---------------------------------------------------------------------------
(* The filler's striped stores.                                            *)

\* the true score the filler computed for a cell under fill pattern p
ScoreOf(p, r, c, mat, w, bias) ==
    LET v == (r * 13 + c * 5 + (H - mat) * 3 + (p - 1) * 7) % 251
    IN  IF w = 16 THEN v - bias ELSE v * 131 - 600

\* the lane value stored for a score: biased and unsigned in 8-bit mode,
\* the signed score itself in 16-bit mode
StoredOf(score, w, bias) == IF w = 16 THEN score + bias ELSE score

\* byte b (0 or 1) of a 16-bit lane value
I16Byte(v, b) == ((v % UInt16) \div (256 ^ b)) % 256

\* the byte the filler leaves at byte address a: lane j of vector-row i of
\* a column holds query position i + j * segLen; TMP vectors, the staging
\* column and padding lanes hold 0
FillByte(p, a, f, bias) ==
    LET v    == a \div VecBytes
        off  == a % VecBytes
        c    == v \div f.colstride
        rem  == v % f.colstride
        i    == rem \div f.rowstride
        slot == rem % f.rowstride
        j    == IF f.wperv = 16 THEN off ELSE off \div 2
        r    == i + j * f.nvecrow
        sv   == StoredOf(ScoreOf(p, r, c, slot, f.wperv, bias), f.wperv, bias)
    IN  IF slot = TMP \/ c >= f.ncol \/ r >= f.nrow THEN 0
        ELSE IF f.wperv = 16 THEN sv
        ELSE I16Byte(sv, off % 2)

FillMem(p, f, bias) ==
    [a \in 0 .. f.bufsize * VecBytes - 1 |-> FillByte(p, a, f, bias)]

\* the fields of the matrix as a record
Mat ==
    [inited |-> inited_, nrow |-> nrow_, ncol |-> ncol_, wperv |-> wperv_,
     nvecrow |-> nvecrow_, nveccol |-> nveccol_, colstride |-> colstride_,
     rowstride |-> rowstride_, bufsize |-> bufsize]

\* the biases a problem of width w may use: 16-bit problems use none
Biases(w) == IF w = 16 THEN 0 .. MaxBias ELSE {0}

---------------------------------------------------------------------------
(* Layout runs: init, fill, then scalar reads and vector accessors.        *)

MatInit ==
    /\ \E nr \in 1 .. MaxQ, nc \in 1 .. MaxR, w \in WPervs :
          /\ MatIs(init(nr, nc, w))
          /\ masks_ = initMasks(nr, nc)
          /\ bias_ \in Biases(w)
    /\ bufmem = NoMem /\ filled = 0 /\ sc = 0
    /\ op = OpInit
    /\ nops = 0
    /\ BtIdle
    /\ OthersIdle

\* the filler runs to completion
Fill ==
    /\ inited_ /\ filled = 0
    /\ \E p \in 1 .. NSeeds :
          /\ filled' = p
          /\ bufmem' = FillMem(p, Mat, bias_)
    /\ op' = [OpInit EXCEPT !.name = "fill"]
    /\ UNCHANGED <<matvars, bias_, sc, extvars, masks_, nops, btvars>>

CallElt ==
    /\ inited_ /\ filled > 0
    /\ \E r \in Rows, c \in Cols, mat \in {E, F, H} :
          op' = [OpInit EXCEPT !.name = "elt", !.r = r, !.c = c, !.arg = mat,
                               !.vec = eltvec(r, c, mat), !.lane = rowelt(r),
                               !.ret = elt(r, c, mat)]
    /\ UNCHANGED <<matvars, bufmem, filled, bias_, sc, extvars, masks_, nops, btvars>>

VecCall(name, r, c, slot, idx) ==
    /\ inited_
    /\ op' = [OpInit EXCEPT !.name = name, !.r = r, !.c = c, !.arg = slot,
                            !.ret = idx]
    /\ UNCHANGED <<matvars, bufmem, filled, bias_, sc, extvars, masks_, nops, btvars>>

VecRows == 0 .. nvecrow_ - 1
VecCols == 0 .. nveccol_ - 1
VecColsUnsafe == 0 .. nveccol_

CallEvec ==
    \E r \in VecRows, c \in VecCols : VecCall("evec", r, c, E, evec(r, c))
CallEvecUnsafe ==
    \E r \in VecRows, c \in VecColsUnsafe :
        VecCall("evecUnsafe", r, c, E, evecUnsafe(r, c))
CallFvec ==
    \E r \in VecRows, c \in VecCols : VecCall("fvec", r, c, F, fvec(r, c))
CallHvec ==
    \E r \in VecRows, c \in VecCols : VecCall("hvec", r, c, H, hvec(r, c))
CallTmpvec ==
    \E r \in VecRows, c \in VecCols :
        VecCall("tmpvec", r, c, TMP, tmpvec(r, c))
CallTmpvecUnsafe ==
    \E r \in VecRows, c \in VecColsUnsafe :
        VecCall("tmpvecUnsafe", r, c, TMP, tmpvecUnsafe(r, c))

\* the matrix is initialised again for the next problem; the runs explored
\* do so right after a fill
CallInit ==
    /\ op.name = "fill"
    /\ \E nr \in 1 .. MaxQ, nc \in 1 .. MaxR, w \in WPervs :
          /\ MatBecomes(init(nr, nc, w))
          /\ masks_' = initMasks(nr, nc)
          /\ bias_' \in Biases(w)
    /\ bufmem' = NoMem /\ filled' = 0
    /\ op' = OpInit
    /\ UNCHANGED <<sc, extvars, nops, btvars>>

MatNext ==
    \/ Fill
    \/ CallElt
    \/ CallEvec
    \/ CallEvecUnsafe
    \/ CallFvec
    \/ CallHvec
    \/ CallTmpvec
    \/ CallTmpvecUnsafe
    \/ CallInit

SpecMat == MatInit /\ [][MatNext]_vars

---------------------------------------------------------------------------
(* The backtrace: analyzeCell and the caller's loop around it.             *)

\* the caller passes offsetsc = -bias and the local-alignment floor
offsetsc == -bias_
floorsc == 0

\* the mask field of the current matrix ct in word w, its width, its flag
MaskOfCt(w, t) == IF t = H THEN hMaskOf(w) ELSE IF t = E THEN eMaskOf(w)
                  ELSE fMaskOf(w)
MaskBits(t) == IF t = H THEN 0 .. 4 ELSE 0 .. 1
IsMaskSetCt(m, r, c, t) ==
    IF t = H THEN isHMaskSet(m, r, c)
    ELSE IF t = E THEN isEMaskSet(m, r, c) ELSE isFMaskSet(m, r, c)
MaskSetCt(m, r, c, t, mask) ==
    IF t = H THEN hMaskSet(m, r, c, mask)
    ELSE IF t = E THEN eMaskSet(m, r, c, mask) ELSE fMaskSet(m, r, c, mask)

BitsOf(mask, t) == {k \in MaskBits(t) : BitAt(mask, k) = 1}

\* the transition a mask bit stands for: <<row, column, matrix>> of the
\* predecessor.  H: bit 0 diagonal, bits 1-2 from E, bits 3-4 from F;
\* E and F: bit 0 gap open (to H), bit 1 gap extend
NextCellStays(r, c, t, k) ==
    IF t = H
    THEN IF k = 0 THEN <<r - 1, c - 1, H>>
         ELSE IF k \in {1, 2} THEN <<r, c, E>> ELSE <<r, c, F>>
    ELSE IF t = E
    THEN IF k = 0 THEN <<r, c, H>> ELSE <<r, c - 1, E>>
    ELSE IF k = 0 THEN <<r, c, H>> ELSE <<r - 1, c, F>>
NextCell(r, c, t, k) ==
    IF t = H
    THEN IF k = 0 THEN <<r - 1, c - 1, H>>
         ELSE IF k \in {1, 2} THEN <<r, c, E>> ELSE <<r, c, F>>
    ELSE IF t = E
    THEN IF k = 0 THEN <<r, c - 1, H>> ELSE <<r, c - 1, E>>
    ELSE IF k = 0 THEN <<r - 1, c, H>> ELSE <<r - 1, c, F>>

\* step 3: the predecessors that achieve the score of cell (r, c) of matrix
\* t under scoring scheme s, as a mask
PredMask(s, r, c, t) ==
    IF t = H THEN (s * 11 + r * 7 + c * 13) % 32
    ELSE IF t = E THEN (s + r + 2 * c) % 4
    ELSE (s * 3 + 2 * r + c) % 4

\* step 2: the cell's score is at or below the floor, at H level
AtFloor(r, c, t) == t = H /\ elt(r, c, t) + offsetsc <= floorsc

\* step 3: the masks after the lazy computation stored the computed mask cm
\* (unchanged when the mask had been set before)
Lazy(m, r, c, t, cm) ==
    IF IsMaskSetCt(m, r, c, t) THEN m ELSE MaskSetCt(m, r, c, t, cm)

\* the mask analyzeCell consults: the stored one, or the one just computed
Consulted(m, r, c, t, cm) ==
    IF IsMaskSetCt(m, r, c, t) THEN MaskOfCt(m[CellIdx(r, c)], t) ELSE cm

\* step 4: with more than one bit, the chosen bit k is cleared through the setter
AfterChoice(m, r, c, t, mask, k) ==
    IF Cardinality(BitsOf(mask, t)) > 1
    THEN MaskSetCt(m, r, c, t, And32(mask, Not32(Shl32(1, k))))
    ELSE m

\* on success the caller marks every H-level cell of the walk
RECURSIVE MarkAll(_, _)
MarkAll(m, cells) ==
    IF cells = {} THEN m
    ELSE LET p == CHOOSE q \in cells : TRUE
         IN  MarkAll(setReportedThrough(m, p[1], p[2]), cells \ {p})

HPath == IF ct = H THEN path \cup {<<row, col>>} ELSE path

Visit(m, k) ==
    /\ op' = [OpInit EXCEPT !.name = "analyzeCell", !.r = row, !.c = col,
                            !.arg = ct, !.ret = k, !.pre = masks_]
    /\ masks_' = m
    /\ nvisit' = nvisit + 1
    /\ UNCHANGED <<matvars, bufmem, filled, bias_, sc, extvars, nops, nbt, start>>

Stay == UNCHANGED <<row, col, ct>>

\* the caller starts a backtrace at an H cell
BtStart ==
    /\ pc # "walk" /\ nbt < MaxBt
    /\ \E r0 \in Rows, c0 \in Cols :
          /\ row' = r0 /\ col' = c0 /\ start' = <<r0, c0>>
    /\ ct' = H /\ pc' = "walk" /\ path' = {} /\ nvisit' = 0
    /\ nbt' = nbt + 1 /\ out' = NoOut
    /\ op' = [OpInit EXCEPT !.name = "start"]
    /\ UNCHANGED <<matvars, bufmem, filled, bias_, sc, extvars, masks_, nops>>

\* step 1: the cell is reportedThrough; the caller abandons the backtrace
BtReportedThru ==
    /\ pc = "walk"
    /\ reportedThrough(masks_, row, col)
    /\ out' = [out EXCEPT !.empty = TRUE, !.branch = FALSE,
                           !.reportedThru = TRUE]
    /\ Visit(masks_, -1)
    /\ pc' = "failed" /\ Stay /\ UNCHANGED path

\* step 2: a legal origin; the backtrace succeeds and marks its H cells
BtOriginFloor ==
    /\ pc = "walk"
    /\ ~reportedThrough(masks_, row, col)
    /\ AtFloor(row, col, ct)
    /\ out' = [NoOut EXCEPT !.canMoveThru = FALSE]
    /\ Visit(MarkAll(masks_, HPath), -1)
    /\ pc' = "succeeded" /\ Stay /\ path' = HPath

\* step 3: the mask, computed now for the first time, is empty: an origin
BtOriginNoPred ==
    /\ pc = "walk"
    /\ ~reportedThrough(masks_, row, col)
    /\ ~AtFloor(row, col, ct)
    /\ ~IsMaskSetCt(masks_, row, col, ct)
    /\ PredMask(sc, row, col, ct) = 0
    /\ out' = [NoOut EXCEPT !.canMoveThru = FALSE]
    /\ Visit(MarkAll(Lazy(masks_, row, col, ct, 0), HPath), -1)
    /\ pc' = "succeeded" /\ Stay /\ path' = HPath

\* step 3: the mask was set before and every predecessor has been consumed
BtExhausted ==
    /\ pc = "walk"
    /\ ~reportedThrough(masks_, row, col)
    /\ ~AtFloor(row, col, ct)
    /\ IsMaskSetCt(masks_, row, col, ct)
    /\ Consulted(masks_, row, col, ct, 0) = 0
    /\ out' = [NoOut EXCEPT !.empty = TRUE]
    /\ Visit(masks_, -1)
    /\ pc' = "failed" /\ Stay /\ UNCHANGED path

\* steps 3-5: a predecessor is chosen and the walk moves to it, or is
\* rejected because the predecessor lies beyond the top or left boundary
BtChoose(cm, k, inside) ==
    LET mask == Consulted(masks_, row, col, ct, cm)
        nxt  == NextCell(row, col, ct, k)
    IN  /\ pc = "walk"
        /\ ~reportedThrough(masks_, row, col)
        /\ ~AtFloor(row, col, ct)
        /\ k \in BitsOf(mask, ct)
        /\ inside = (nxt[1] >= 0 /\ nxt[2] >= 0)
        /\ out' = [NoOut EXCEPT !.cur = k, !.canMoveThru = TRUE,
                     !.branch = (Cardinality(BitsOf(mask, ct)) > 1)]
        /\ Visit(AfterChoice(Lazy(masks_, row, col, ct, cm),
                             row, col, ct, mask, k), k)
        /\ IF inside
           THEN /\ pc' = "walk" /\ path' = HPath
                /\ row' = nxt[1] /\ col' = nxt[2] /\ ct' = nxt[3]
           ELSE /\ pc' = "failed" /\ Stay /\ UNCHANGED path

BtMove ==
    \E k \in MaskBits(ct) : BtChoose(PredMask(sc, row, col, ct), k, TRUE)

BtBoundary ==
    \E k \in MaskBits(ct) : BtChoose(PredMask(sc, row, col, ct), k, FALSE)

\* the shapes of the matrices that are backtraced
BtShapes ==
    {s \in (1 .. BtCells) \X (1 .. BtCells) : s[1] * s[2] <= BtCells}

\* the fill pattern and the bias that come with scoring scheme s
SeedOf(s) == ((s - 1) % NSeeds) + 1
BiasOf(s, w) == IF w = 16 THEN s % (MaxBias + 1) ELSE 0

\* a problem: a scoring scheme, a shape, a width; the matrix is filled
BtInit ==
    /\ sc \in 1 .. NScorings
    /\ \E shape \in BtShapes, w \in WPervs :
       LET f == init(shape[1], shape[2], w)
       IN /\ MatIs(f)
          /\ masks_ = initMasks(shape[1], shape[2])
          /\ bias_ = BiasOf(sc, w)
          /\ filled = SeedOf(sc)
          /\ bufmem = FillMem(SeedOf(sc), f, BiasOf(sc, w))
    /\ op = [OpInit EXCEPT !.name = "fill"]
    /\ nops = 0
    /\ BtIdle
    /\ OthersIdle

BtNext ==
    \/ BtStart
    \/ BtReportedThru
    \/ BtOriginFloor
    \/ BtOriginNoPred
    \/ BtExhausted
    \/ BtMove
    \/ BtBoundary

SpecBt == BtInit /\ [][BtNext]_vars

---------------------------------------------------------------------------
(* Claims about the backtrace, checked under SpecBt.                       *)

\* the last step was an analyzeCell visit
Visited == op.name = "analyzeCell"
\* the visited cell's reportedThrough bit, read from the word before the visit
PreReported == BitAt(OpPreWord, 0) = 1
\* the visited cell's mask of the visited matrix, before and after the visit
PreMaskSet == IsMaskSetCt(op.pre, op.r, op.c, op.arg)
PreMask == MaskOfCt(OpPreWord, op.arg)
PostMask == MaskOfCt(OpWord, op.arg)
\* the mask the visit consulted
PreConsulted ==
    IF PreMaskSet THEN PreMask ELSE PredMask(sc, op.r, op.c, op.arg)

\* C2: when analyzeCell visits a cell whose mask for the current matrix has
\* more than one predecessor bit, it picks one bit, reports branch = true and
\* rewrites the mask so that the picked bit is no longer in the cell's stored
\* mask afterwards, for each of the 5 H-mask bits and both E/F-mask bits.
C2_PickedBitCleared ==
    (Visited /\ op.ret >= 0 /\ Cardinality(BitsOf(PreConsulted, op.arg)) > 1)
        => /\ out.branch
           /\ BitAt(PreConsulted, op.ret) = 1
           /\ BitAt(PostMask, op.ret) = 0

\* C5: analyzeCell on a reportedThrough cell reports empty = true,
\* branch = false, reportedThru = true before any origin or mask test, leaves
\* every mask word unchanged, and the backtrace does not end successfully
\* there.
C5_ReportedThroughStops ==
    (Visited /\ PreReported)
        => /\ out.empty /\ ~out.branch /\ out.reportedThru
           /\ masks_ = op.pre
           /\ pc # "succeeded"

\* a backtrace was started on a reportedThrough H cell whose score is at or
\* below the floor, and analyzeCell has visited it
C5_Witness ==
    /\ Visited /\ PreReported /\ nvisit = 1
    /\ AtFloor(op.r, op.c, op.arg)

C7_MasksShrink ==
    Visited =>
        \A r \in Rows, c \in Cols, t \in {H, E, F} :
            IsMaskSetCt(op.pre, r, c, t) =>
                LET old == MaskOfCt(op.pre[CellIdx(r, c)], t)
                    new == MaskOfCt(masks_[CellIdx(r, c)], t)
                IN  And32(new, old) = new

\* a mask that had been set on an earlier visit has been rewritten with one
\* predecessor fewer
C7_Witness ==
    /\ Visited /\ PreMaskSet /\ out.branch
    /\ PostMask # PreMask

---------------------------------------------------------------------------
(* Claims about the layout, checked under SpecMat.                         *)

\* what the filler stored for the cell the last elt call read
OpScore == ScoreOf(filled, op.r, op.c, op.arg, wperv_, bias_)
OpStored == StoredOf(OpScore, wperv_, bias_)

\* C8 as stated: elt(row, col, mat) returns the score with the bias removed:
\* in 8-bit mode (16 words per vector) the stored unsigned lane value minus
\* bias, in 16-bit mode the stored signed lane value.
C8_EltUnbiased ==
    op.name = "elt" =>
        op.ret = (IF wperv_ = 16 THEN OpStored - bias_ ELSE OpStored)

\* C8 amended: elt(row, col, mat) returns the lane value stored for logical
\* cell (row, col) of matrix mat as it is: in 8-bit mode the stored unsigned
\* lane value, bias included, in 16-bit mode the stored signed lane value.
C8_EltStored ==
    op.name = "elt" =>
        /\ op.ret = OpStored
        /\ wperv_ = 16 => op.ret = OpScore + bias_ /\ op.ret \in 0 .. 255

\* elt has read, in 8-bit mode with a positive bias, a row that lies in a
\* lane other than lane 0
C8_Witness ==
    /\ op.name = "elt" /\ wperv_ = 16 /\ bias_ > 0
    /\ op.lane > 0 /\ op.c > 0

\* C9: with segLen = ceil(nrow / wperv), elt reads for every row < nrow lane
\* rowelt = row / segLen of vector-row rowvec = row % segLen, with
\* rowelt < wperv, rowvec < segLen and row = rowvec + rowelt * segLen; two
\* different rows of a column never read the same (vector, lane), and no
\* row < nrow reads a padding lane (a lane whose query position is >= nrow).
C9_StripedBijection ==
    op.name = "elt" =>
        LET seg == SegLen(nrow_, wperv_)
            rv  == op.r - op.lane * seg
        IN  /\ nvecrow_ = seg
            /\ op.lane = op.r \div seg
            /\ op.lane < wperv_
            /\ rv = op.r % seg /\ rv >= 0 /\ rv < seg
            /\ op.vec = op.c * colstride_ + rv * rowstride_ + op.arg
            /\ op.vec < bufsize
            /\ rv + op.lane * seg < nrow_
            /\ \A r2 \in Rows \ {op.r} :
                  <<eltvec(r2, op.c, op.arg), rowelt(r2)>> # <<op.vec, op.lane>>

\* elt has read a row beyond the first stripe of a matrix with more than one
\* vector-row and with padding lanes
C9_Witness ==
    /\ op.name = "elt" /\ nvecrow_ > 1 /\ op.lane > 0
    /\ nrow_ < nvecrow_ * wperv_

VecNames ==
    {"evec", "evecUnsafe", "fvec", "hvec", "tmpvec", "tmpvecUnsafe"}

\* the index of every (vector-row, column, slot) an accessor may be asked for
AllVecIdx ==
    [t \in VecRows \X VecColsUnsafe \X {E, F, H, TMP} |->
        t[1] * rowstride_ + t[2] * colstride_ + t[3]]

\* C10: with row stride 4 and column stride 4 * segLen, the index
\* r * 4 + c * (4 * segLen) + slot computed by evec, fvec, hvec, tmpvec
\* (c < ncol) and evecUnsafe, tmpvecUnsafe (c <= ncol) is strictly less than
\* the 4 * segLen * (ncol + 1) vectors allocated by init, so the in-bounds
\* assertion never fails, and different (r, c, slot) give different indices.
C10_VecIndexInBounds ==
    op.name \in VecNames =>
        LET seg == SegLen(nrow_, wperv_)
        IN  /\ rowstride_ = 4 /\ colstride_ = 4 * seg
            /\ bufsize = 4 * seg * (ncol_ + 1)
            /\ op.ret = op.r * 4 + op.c * (4 * seg) + op.arg
            /\ op.ret < bufsize
            /\ \A t \in DOMAIN AllVecIdx :
                  t # <<op.r, op.c, op.arg>> => AllVecIdx[t] # op.ret

\* tmpvecUnsafe has been asked for the last vector-row of the column after
\* the final one, in a matrix with more than one vector-row
C10_Witness ==
    /\ op.name = "tmpvecUnsafe" /\ op.c = nveccol_
    /\ op.r = nvecrow_ - 1 /\ nvecrow_ > 1
    /\ op.ret = bufsize - 1

---------------------------------------------------------------------------
(* EList_m128i: the 16-byte aligned buffer of vectors.                     *)

\* the content of a vector nobody has stored into yet
Junk == 0
Vals == 1 .. NVals

\* the matrix is left alone while another object is exercised
MatrixIdle ==
    /\ MatIs(init(1, 1, 16)) /\ masks_ = initMasks(1, 1)
    /\ bufmem = NoMem /\ filled = 0 /\ bias_ = 0 /\ sc = 0
    /\ BtIdle

\* the object, the heap and the tally as one record, threaded through the
\* private helpers; ret is the value the last helper returned
LState ==
    [cat |-> cat_, list |-> list_, sz |-> sz_, cur |-> cur_,
     heap |-> heap, tally |-> tally, ev |-> <<>>, ret |-> 0]

\* EList_m128i::size, capacity, ptr
size(L) == L.cur
capacity(L) == L.sz
ptr(L) == L.list

\* operator new[]: the block goes to the lowest slot that holds no live
\* block, at any offset within the first 16 bytes of the slot; never NULL
SlotVecs == 4 * MaxN + 4
SlotBytes == SlotVecs * VecBytes
SlotOf(a) == a \div SlotBytes
FreeSlot(h) ==
    CHOOSE k \in 1 .. Cardinality(DOMAIN h) + 1 :
        (\A a \in DOMAIN h : SlotOf(a) # k)
        /\ (\A j \in 1 .. k - 1 : \E a \in DOMAIN h : SlotOf(a) = j)
AllocSkews == {0, 1, 8, VecBytes - 1}
NewAddr(h, d) == FreeSlot(h) * SlotBytes + d

\* an event of a call: "new" (addr returned, n vectors, the pointer alloc
\* made of it), "delete" (addr handed to delete[]; ok iff it is the address
\* new[] returned for a live block), "assert" (an assertion that fails)
Event(e, addr, n, p, ok) ==
    [e |-> e, addr |-> addr, n |-> n, ptr |-> p, ok |-> ok]

\* assert(cond)
Check(L, cond) ==
    IF cond THEN L ELSE [L EXCEPT !.ev = Append(@, Event("assert", 0, 0, 0, FALSE))]

\* an alignment that rounds down instead of up
AlignDown(tmpint) ==
    IF And32(tmpint, 15) # 0 THEN And32(tmpint, Not32(15)) ELSE tmpint

\* EList_m128i::alloc, "Align it!"
AlignUp(tmpint) ==
    IF And32(tmpint, 15) # 0 THEN And32(tmpint + 15, Not32(15)) ELSE tmpint

\* EList_m128i::alloc: new __m128i[sz + 2] at offset d, aligned, tallied
alloc(L, sz, d) ==
    LET tmp0   == NewAddr(L.heap, d)
        tmpint == AlignUp(tmp0)
        blk    == [ptr |-> tmpint, n |-> sz + 2,
                   data |-> [i \in 0 .. sz - 1 |-> Junk]]
        L1     == [L EXCEPT !.heap = (tmp0 :> blk) @@ L.heap,
                            !.ev = Append(@, Event("new", tmp0, sz + 2,
                                                   tmpint, TRUE))]
        L2     == Check(Check(L1, And32(tmpint, 15) = 0), tmpint # 0)
    IN  [L2 EXCEPT !.tally = [@ EXCEPT ![L.cat] = @ + sz],
                   !.ret = tmpint]

\* the block the pointer p points into, by the address new[] returned for it
RawOf(h, p) == CHOOSE a \in DOMAIN h : h[a].ptr = p
\* list_[0 .. sz_ - 1]
Elems(L) == IF L.list = 0 THEN <<>> ELSE L.heap[RawOf(L.heap, L.list)].data

\* a free that forgets the tally
freeUntallied(L) ==
    IF L.list # 0
    THEN LET raw == RawOf(L.heap, L.list)
         IN  [L EXCEPT !.heap = [a \in DOMAIN L.heap \ {raw} |-> L.heap[a]],
                       !.ev = Append(@, Event("delete", L.list, 0, L.list,
                                              L.list = raw)),
                       !.list = 0, !.sz = 0, !.cur = 0]
    ELSE L

\* EList_m128i::free: delete[] list_, untally.  The address handed to
\* delete[] is list_; when it is not the address new[] returned, a run that
\* goes on has the allocator release the block the address lies in
free(L) ==
    IF L.list # 0
    THEN LET raw == RawOf(L.heap, L.list)
         IN  [L EXCEPT !.heap = [a \in DOMAIN L.heap \ {raw} |-> L.heap[a]],
                       !.ev = Append(@, Event("delete", L.list, 0, L.list,
                                              L.list = raw)),
                       !.tally = [@ EXCEPT ![L.cat] = @ - L.sz],
                       !.list = 0, !.sz = 0, !.cur = 0]
    ELSE L

\* EList_m128i::lazyInit
lazyInit(L, d) ==
    LET A == alloc(Check(L, L.list = 0), L.sz, d)
    IN  [A EXCEPT !.list = A.ret]

\* EList_m128i::lazyInitExact
lazyInitExact(L, sz, d) ==
    LET L1 == Check(Check(L, sz > 0), L.list = 0)
        A  == alloc([L1 EXCEPT !.sz = sz], sz, d)
    IN  [A EXCEPT !.list = A.ret]

\* a copy loop that stops one element early
CopyShort(L, tmp, n) ==
    LET src == Elems(L)
        a   == RawOf(L.heap, tmp)
    IN  [L EXCEPT !.heap[a].data =
            [i \in DOMAIN @ |-> IF i < n - 1 THEN src[i] ELSE @[i]]]

\* expandCopyExact's loop: tmp[i] = list_[i] for i < cur_
Copy(L, tmp, n) ==
    LET src == Elems(L)
        a   == RawOf(L.heap, tmp)
    IN  [L EXCEPT !.heap[a].data =
            [i \in DOMAIN @ |-> IF i < n THEN src[i] ELSE @[i]]]

\* an exact expansion that allocates room for one element more
expandCopyExactPadded(L, newsz, d) ==
    IF newsz <= L.sz THEN L
    ELSE LET A   == alloc(L, newsz + 1, d)
             tmp == A.ret
             cur == L.cur
             B   == IF L.list # 0 THEN free(Copy(A, tmp, L.cur)) ELSE A
         IN  [B EXCEPT !.list = tmp, !.sz = newsz + 1, !.cur = cur]

\* EList_m128i::expandCopyExact
expandCopyExact(L, newsz, d) ==
    IF newsz <= L.sz THEN L
    ELSE LET A   == alloc(L, newsz, d)
             tmp == A.ret
             A1  == Check(A, tmp # 0)
             cur == L.cur
             B   == IF L.list # 0 THEN free(Copy(A1, tmp, L.cur)) ELSE A1
         IN  [B EXCEPT !.list = tmp, !.sz = newsz, !.cur = cur]

\* a growth loop that stops at the threshold itself
DoubledToThresh(newsz, thresh) == IF newsz < thresh THEN thresh ELSE newsz

\* expandCopy's loop: while(newsz < thresh) newsz *= 2
RECURSIVE Doubled(_, _)
Doubled(newsz, thresh) ==
    IF newsz < thresh THEN Doubled(newsz * 2, thresh) ELSE newsz

\* EList_m128i::expandCopy
expandCopy(L, thresh, d) ==
    IF thresh <= L.sz THEN L
    ELSE expandCopyExact(L, Doubled((L.sz * 2) + 1, thresh), d)

\* EList_m128i::ensure
ensure(L, thresh, d1, d2) ==
    expandCopy(IF L.list = 0 THEN lazyInit(L, d1) ELSE L, L.cur + thresh, d2)

\* EList_m128i::reserveExact
reserveExact(L, newsz, d1, d2) ==
    expandCopyExact(IF L.list = 0 THEN lazyInitExact(L, newsz, d1) ELSE L,
                    newsz, d2)

\* EList_m128i::resize
resize(L, sz, d1, d2) ==
    LET L1 == IF sz > 0 /\ L.list = 0 THEN lazyInit(L, d1) ELSE L
    IN  IF sz <= L1.cur THEN [L1 EXCEPT !.cur = sz]
        ELSE [(IF L1.sz < sz THEN expandCopy(L1, sz, d2) ELSE L1)
                 EXCEPT !.cur = sz]

\* a resizeExact that sets the size without looking at the capacity
resizeExactUnchecked(L, sz, d1, d2) == [L EXCEPT !.cur = sz]

\* EList_m128i::resizeExact
resizeExact(L, sz, d1, d2) ==
    LET L1 == IF sz > 0 /\ L.list = 0 THEN lazyInitExact(L, sz, d1) ELSE L
    IN  IF sz <= L1.cur THEN [L1 EXCEPT !.cur = sz]
        ELSE [(IF L1.sz < sz THEN expandCopyExact(L1, sz, d2) ELSE L1)
                 EXCEPT !.cur = sz]

\* a clear that gives the storage back
clearReleases(L) == free(L)

\* EList_m128i::clear
clear(L) == [L EXCEPT !.cur = 0]

\* EList_m128i::operator[] used as list[i] = v
store(L, i, v) ==
    LET L1 == Check(L, i < L.cur)
    IN  [L1 EXCEPT !.heap[RawOf(L.heap, L.list)].data[i] = v]

\* the caller's loop: list[i] = v + i for every i from k up to size() - 1
RECURSIVE storeAll(_, _, _)
storeAll(L, k, v) ==
    IF k >= size(L) THEN L ELSE storeAll(store(L, k, v + k), k + 1, v)

\* an event after which the call does not go on in every build: a failed
\* assertion aborts where assertions are compiled in, a delete[] of an
\* address new[] did not return is undefined and may abort
Faults(L) == {i \in 1 .. Len(L.ev) : ~L.ev[i].ok}
FirstFault(L) == CHOOSE i \in Faults(L) : \A j \in Faults(L) : i <= j

ListFrame ==
    UNCHANGED <<matvars, bufmem, filled, bias_, sc, masks_, btvars, metvars,
                namevars>>

\* the call returns and leaves the state L behind
ListReturns(nm, arg, L) ==
    /\ cat_' = L.cat /\ list_' = L.list /\ sz_' = L.sz /\ cur_' = L.cur
    /\ heap' = L.heap /\ tally' = L.tally /\ ev' = L.ev
    /\ op' = [OpInit EXCEPT !.name = nm, !.arg = arg, !.pre = LState]

\* the process stops at the call's first fault
ListAborts(nm, arg, L) ==
    /\ Faults(L) # {}
    /\ ev' = SubSeq(L.ev, 1, FirstFault(L))
    /\ lstat' = "aborted"
    /\ op' = [OpInit EXCEPT !.name = "abort", !.arg = arg, !.pre = LState]
    /\ UNCHANGED <<cat_, list_, sz_, cur_, heap, tally>>

ListCall(nm, arg, L) ==
    /\ lstat = "live" /\ nops < MaxListOps
    /\ nops' = nops + 1
    /\ \/ ListReturns(nm, arg, L) /\ lstat' = "live"
       \/ ListAborts(nm, arg, L)
    /\ ListFrame

ListInit ==
    /\ MatrixIdle /\ MetIdle /\ NameIdle
    /\ cat_ \in Cats /\ list_ = 0 /\ sz_ = 0 /\ cur_ = 0
    /\ heap = <<>> /\ tally = [k \in Cats |-> 0]
    /\ lstat = "live" /\ ev = <<>>
    /\ op = OpInit /\ nops = 0

\* the offsets of the block a lazy initialisation allocates, if one happens
LazySkews == IF list_ = 0 THEN AllocSkews ELSE {0}

CallEnsure ==
    \E thresh \in 0 .. MaxN, d1 \in LazySkews, d2 \in AllocSkews :
        ListCall("ensure", thresh, ensure(LState, thresh, d1, d2))

CallReserveExact ==
    \E newsz \in 0 .. MaxN, d1 \in LazySkews, d2 \in AllocSkews :
        ListCall("reserveExact", newsz, reserveExact(LState, newsz, d1, d2))

CallResize ==
    \E sz \in 0 .. MaxN, d1 \in LazySkews, d2 \in AllocSkews :
        ListCall("resize", sz, resize(LState, sz, d1, d2))

CallResizeExact ==
    \E sz \in 0 .. MaxN, d1 \in LazySkews, d2 \in AllocSkews :
        ListCall("resizeExact", sz, resizeExact(LState, sz, d1, d2))

CallClear == ListCall("clear", 0, clear(LState))

\* the caller overwrites every element; not counted as a call on the buffer
CallStore ==
    /\ lstat = "live" /\ cur_ > 0
    /\ \E v \in Vals : ListReturns("store", v, storeAll(LState, 0, v))
    /\ UNCHANGED <<lstat, nops>>
    /\ ListFrame

\* EList_m128i::~EList_m128i
CallDestroy ==
    /\ lstat = "live"
    /\ LET L == free(LState)
       IN  \/ ListReturns("destroy", 0, L) /\ lstat' = "destroyed"
           \/ ListAborts("destroy", 0, L)
    /\ UNCHANGED nops
    /\ ListFrame

ListNext ==
    \/ CallEnsure
    \/ CallReserveExact
    \/ CallResize
    \/ CallResizeExact
    \/ CallClear
    \/ CallStore
    \/ CallDestroy

SpecList == ListInit /\ [][ListNext]_vars

---------------------------------------------------------------------------
(* Claims about the buffer, checked under SpecList.                        *)

\* the allocations of the last call
News == {i \in 1 .. Len(ev) : ev[i].e = "new"}
\* the last call was one of the public calls and returned
ListOps == {"ensure", "reserveExact", "resize", "resizeExact", "clear"}
Returned == lstat = "live" /\ op.name \in ListOps

\* C11: for every address the allocator returns and every requested capacity
\* sz, the pointer alloc makes of it is a multiple of 16 and the sz vectors
\* starting at it lie inside the allocated block of sz + 2 vectors; ptr()
\* returns such a pointer.
C11_AllocAligned ==
    /\ \A i \in News :
          /\ ev[i].ptr % VecBytes = 0
          /\ ev[i].addr <= ev[i].ptr
          /\ ev[i].ptr + (ev[i].n - 2) * VecBytes
                <= ev[i].addr + ev[i].n * VecBytes
    /\ (lstat = "live" /\ list_ # 0) =>
          /\ list_ % VecBytes = 0
          /\ \E a \in DOMAIN heap :
                /\ heap[a].ptr = list_
                /\ a <= list_
                /\ list_ + sz_ * VecBytes <= a + heap[a].n * VecBytes

\* the allocator returned an address that is not a multiple of 16 for a
\* block of at least one usable vector, and the buffer now uses it
C11_Witness ==
    /\ Returned /\ list_ # 0 /\ sz_ > 0
    /\ \E i \in News :
          /\ ev[i].ptr = list_
          /\ ev[i].addr % VecBytes # 0

\* the last call returned and grew the capacity
GrowOps == {"ensure", "reserveExact", "resize", "resizeExact"}
Grew == Returned /\ op.name \in GrowOps /\ sz_ > capacity(op.pre)

\* C12: a call that grows the capacity (ensure, reserveExact, resize,
\* resizeExact) keeps elements 0 .. size()-1, size taken before the call, at
\* their values, and the reallocation leaves size() alone: after ensure and
\* reserveExact it is the old size, after resize and resizeExact the size
\* asked for.
C12_GrowthKeepsContents ==
    Grew =>
        /\ \A i \in 0 .. size(op.pre) - 1 :
              Elems(LState)[i] = Elems(op.pre)[i]
        /\ op.name \in {"ensure", "reserveExact"} => cur_ = size(op.pre)
        /\ op.name \in {"resize", "resizeExact"} => cur_ = op.arg

\* a buffer holding stored vectors has been moved to a larger block
C12_Witness ==
    /\ Grew /\ size(op.pre) > 1
    /\ \A i \in 0 .. size(op.pre) - 1 : Elems(op.pre)[i] # Junk
    /\ list_ # ptr(op.pre)

\* C13: clear() sets size() to 0 and leaves capacity(), the storage pointer
\* and the memory tally as they were, whatever the buffer's state.
C13_ClearKeepsStorage ==
    (Returned /\ op.name = "clear") =>
        /\ cur_ = 0
        /\ sz_ = capacity(op.pre)
        /\ list_ = ptr(op.pre)
        /\ tally = op.pre.tally
        /\ heap = op.pre.heap

\* a buffer holding elements in allocated storage has been cleared
C13_Witness ==
    /\ Returned /\ op.name = "clear"
    /\ size(op.pre) > 0 /\ capacity(op.pre) > size(op.pre) /\ list_ # 0

\* C14: resizeExact(n) and reserveExact(n) with n above the capacity, also on
\* a buffer never initialised, leave capacity() = n; with n at most the
\* capacity they leave it unchanged.  resizeExact sets size() to n,
\* reserveExact leaves size() unchanged.
C14_ExactCapacity ==
    (Returned /\ op.name \in {"resizeExact", "reserveExact"}) =>
        /\ sz_ = IF op.arg > capacity(op.pre) THEN op.arg
                 ELSE capacity(op.pre)
        /\ op.name = "resizeExact" => cur_ = op.arg
        /\ op.name = "reserveExact" => cur_ = size(op.pre)

\* resizeExact has grown an initialised, non-empty buffer by more than one
C14_Witness ==
    /\ Returned /\ op.name = "resizeExact"
    /\ ptr(op.pre) # 0 /\ size(op.pre) > 0
    /\ op.arg > capacity(op.pre) + 1

\* the capacities (2c + 1) * 2^k, k >= 0, and the smallest that reaches n
GeomCaps(c) == {(2 * c + 1) * 2 ^ k : k \in 0 .. MaxN}
GeomCap(c, n) ==
    CHOOSE g \in GeomCaps(c) :
        g >= n /\ \A h \in GeomCaps(c) : h >= n => g <= h

\* C15: after resize(n), size() = n and capacity() >= n; when n exceeds the
\* old capacity c the new capacity is (2c + 1) * 2^k for the smallest k >= 0
\* that makes it at least n, and when n <= c the capacity is unchanged.
C15_ResizeGeometric ==
    (Returned /\ op.name = "resize") =>
        /\ cur_ = op.arg /\ sz_ >= op.arg
        /\ sz_ = IF op.arg > capacity(op.pre)
                 THEN GeomCap(capacity(op.pre), op.arg)
                 ELSE capacity(op.pre)

\* resize has grown a buffer and the doubling loop ran at least once
C15_Witness ==
    /\ Returned /\ op.name = "resize"
    /\ op.arg > 2 * capacity(op.pre) + 1
    /\ sz_ > op.arg

\* C16: the memory accounting balances: while the buffer lives, the net
\* amount tallied under its category equals capacity(); after the destructor
\* it is 0; nothing is tallied under another category.
C16_TallyBalances ==
    /\ lstat = "live" => tally[cat_] = sz_
    /\ lstat = "destroyed" => tally[cat_] = 0
    /\ lstat # "aborted" => \A k \in Cats \ {cat_} : tally[k] = 0

\* a buffer that was reallocated at least once has been destroyed
C16_Witness ==
    /\ lstat = "destroyed" /\ capacity(op.pre) > 0 /\ nops > 1
    /\ op.pre.tally[cat_] = capacity(op.pre)

---------------------------------------------------------------------------
(* SSEMetrics: sixteen counters, merge, reset.                             *)

\* the counters in the order merge adds them
Counters ==
    <<"dp", "dpsat", "dpfail", "dpsucc", "col", "cell", "inner", "fixup",
      "gathcell", "gathsol", "bt", "btfail", "btsucc", "btcell", "corerej",
      "nrej">>
CounterNames == {Counters[k] : k \in 1 .. Len(Counters)}

\* a merge whose btfail statement reads o.bt
MergeSrcSlip ==
    [dp |-> "dp", dpsat |-> "dpsat", dpfail |-> "dpfail",
     dpsucc |-> "dpsucc", col |-> "col", cell |-> "cell", inner |-> "inner",
     fixup |-> "fixup", gathcell |-> "gathcell", gathsol |-> "gathsol",
     bt |-> "bt", btfail |-> "bt", btsucc |-> "btsucc",
     btcell |-> "btcell", corerej |-> "corerej", nrej |-> "nrej"]

\* SSEMetrics::merge, statement by statement: the counter of o that is added
\* to each counter of the receiver
MergeSrc ==
    [dp |-> "dp", dpsat |-> "dpsat", dpfail |-> "dpfail",
     dpsucc |-> "dpsucc", col |-> "col", cell |-> "cell", inner |-> "inner",
     fixup |-> "fixup", gathcell |-> "gathcell", gathsol |-> "gathsol",
     bt |-> "bt", btfail |-> "btfail", btsucc |-> "btsucc",
     btcell |-> "btcell", corerej |-> "corerej", nrej |-> "nrej"]

\* SSEMetrics::reset
reset ==
    [dp |-> 0, dpsat |-> 0, dpfail |-> 0, dpsucc |-> 0, col |-> 0,
     cell |-> 0, inner |-> 0, fixup |-> 0, gathcell |-> 0, gathsol |-> 0,
     bt |-> 0, btfail |-> 0, btsucc |-> 0, btcell |-> 0, corerej |-> 0,
     nrej |-> 0]

\* a += that stores the value it read
AddNothing(x, y) == x

\* x += y on a counter
AddTo(x, y) == x + y

\* statement k of merge run on receiver m with argument o
MergeStmt(m, o, k) ==
    [m EXCEPT ![Counters[k]] = AddTo(@, o[MergeSrc[Counters[k]]])]

\* statements k .. 16 of merge, run by one thread without interruption
RECURSIVE MergeFrom(_, _, _)
MergeFrom(m, o, k) ==
    IF k > Len(Counters) THEN m ELSE MergeFrom(MergeStmt(m, o, k), o, k + 1)

\* SSEMetrics::merge run by one thread alone
merge(m, o) == MergeFrom(m, o, 1)

\* the threads that share one SSEMetrics
Threads == {1, 2}

\* a per-thread structure: counter number k holds k * f
Ramp(f) == [c \in CounterNames |->
               f * (CHOOSE k \in 1 .. Len(Counters) : Counters[k] = c)]

\* a thread that is not inside merge, holding its own structure o
ThreadIdle(o) ==
    [pc |-> "idle", idx |-> 1, tmp |-> 0, o |-> o, getLock |-> FALSE]

MetFrame ==
    UNCHANGED <<matvars, bufmem, filled, bias_, sc, masks_, btvars, listvars,
                namevars>>

\* single-threaded use: every structure is constructed, the per-thread
\* ones have accumulated
MetricsInit ==
    /\ MatrixIdle /\ ListIdle /\ NameIdle
    /\ met = reset /\ lock = 0
    /\ thr \in [Threads -> {ThreadIdle(Ramp(f)) : f \in 0 .. MaxCount}]
    /\ op = OpInit /\ nops = 0

MetCall(nm, t, o, m) ==
    /\ nops < MaxMetOps
    /\ nops' = nops + 1
    /\ met' = m
    /\ op' = [OpInit EXCEPT !.name = nm, !.r = t, !.arg = o, !.pre = met]
    /\ UNCHANGED <<lock, thr>>
    /\ MetFrame

\* met.merge(o) with the structure of thread t
CallMerge == \E t \in Threads : MetCall("merge", t, thr[t].o, merge(met, thr[t].o))

CallReset == MetCall("reset", 0, reset, reset)

\* SSEMetrics::clear
CallMetClear == MetCall("clear", 0, reset, reset)

MetricsNext ==
    \/ CallMerge
    \/ CallReset
    \/ CallMetClear

SpecMetrics == MetricsInit /\ [][MetricsNext]_vars

\* C20: merge(o) adds to each of the 16 counters of the receiver the
\* same-named counter of o and leaves o unchanged; reset() and clear() set
\* all 16 counters to 0, so merging into a freshly reset structure yields a
\* copy of o's counters.
C20_MergeAddsAll ==
    /\ DOMAIN met = CounterNames /\ Cardinality(CounterNames) = 16
    /\ op.name = "merge" =>
          /\ \A c \in CounterNames : met[c] = op.pre[c] + op.arg[c]
          /\ thr[op.r].o = op.arg
          /\ (op.pre = reset => met = op.arg)
    /\ op.name \in {"reset", "clear"} => \A c \in CounterNames : met[c] = 0

\* a structure that had counted and was reset has been merged into
C20_Witness ==
    /\ op.name = "merge" /\ nops = 3
    /\ op.pre = reset /\ met = op.arg
    /\ \A c \in CounterNames : met[c] > 0

---------------------------------------------------------------------------
(* Threads merging their structures into the shared SSEMetrics.            *)

\* the counters the per-thread structures of these runs have counted on:
\* the first and the last that merge adds
RaceCounters == {Counters[1], Counters[Len(Counters)]}
Unit(c, v) == [k \in CounterNames |-> IF k = c THEN v ELSE 0]

\* ThreadSafe ts(&lock, getLock): the constructor waits for the mutex and
\* takes it when getLock is set, and does nothing otherwise
CanEnter(l, getLock) == ~getLock \/ l = 0
Entered(l, getLock, t) == IF getLock THEN t ELSE l
\* the destructor gives the mutex back when it was taken
Left(l, getLock) == IF getLock THEN 0 ELSE l

\* the shared structure has counted already; every thread has something of
\* its own to merge
MergeInit ==
    /\ MatrixIdle /\ ListIdle /\ NameIdle
    /\ met = Ramp(1) /\ lock = 0
    /\ thr \in [Threads -> {ThreadIdle(Unit(c, v)) :
                               c \in RaceCounters, v \in 1 .. MaxCount}]
    /\ op = [OpInit EXCEPT !.name = "shared", !.pre = Ramp(1)]
    /\ nops = 0

MergeFrame ==
    /\ UNCHANGED <<op, nops>>
    /\ MetFrame

\* thread t calls met.merge(o, getLock)
MergeEnter(t) ==
    /\ thr[t].pc = "idle"
    /\ \E g \in BOOLEAN :
          thr' = [thr EXCEPT ![t].pc = "lock", ![t].getLock = g]
    /\ UNCHANGED <<met, lock>>
    /\ MergeFrame

\* ThreadSafe ts(&lock, getLock)
MergeLock(t) ==
    /\ thr[t].pc = "lock"
    /\ CanEnter(lock, thr[t].getLock)
    /\ lock' = Entered(lock, thr[t].getLock, t)
    /\ thr' = [thr EXCEPT ![t].pc = "read", ![t].idx = 1]
    /\ UNCHANGED met
    /\ MergeFrame

\* x += o.x, first half: load x
MergeRead(t) ==
    /\ thr[t].pc = "read"
    /\ thr' = [thr EXCEPT ![t].pc = "write",
                          ![t].tmp = met[Counters[thr[t].idx]]]
    /\ UNCHANGED <<met, lock>>
    /\ MergeFrame

\* x += o.x, second half: store the sum; then the next statement
MergeWrite(t) ==
    /\ thr[t].pc = "write"
    /\ met' = [met EXCEPT ![Counters[thr[t].idx]] =
                  AddTo(thr[t].tmp, thr[t].o[MergeSrc[Counters[thr[t].idx]]])]
    /\ thr' = [thr EXCEPT ![t].idx = @ + 1,
                          ![t].pc = IF thr[t].idx = Len(Counters)
                                    THEN "unlock" ELSE "read"]
    /\ UNCHANGED lock
    /\ MergeFrame

\* merge returns: ts goes out of scope
MergeLeave(t) ==
    /\ thr[t].pc = "unlock"
    /\ lock' = Left(lock, thr[t].getLock)
    /\ thr' = [thr EXCEPT ![t].pc = "done"]
    /\ UNCHANGED met
    /\ MergeFrame

MergeEnters == \E t \in Threads : MergeEnter(t)
MergeLocks == \E t \in Threads : MergeLock(t)
MergeReads == \E t \in Threads : MergeRead(t)
MergeWrites == \E t \in Threads : MergeWrite(t)
MergeLeaves == \E t \in Threads : MergeLeave(t)

MergeNext ==
    \/ MergeEnters
    \/ MergeLocks
    \/ MergeReads
    \/ MergeWrites
    \/ MergeLeaves

SpecMerge == MergeInit /\ [][MergeNext]_vars

\* thread t is between the first load and the return of merge
InMerge(t) == thr[t].pc \in {"read", "write", "unlock"}
AllDone == \A t \in Threads : thr[t].pc = "done"
RECURSIVE SumO(_, _)
SumO(c, S) ==
    IF S = {} THEN 0
    ELSE LET t == CHOOSE u \in S : TRUE
         IN  thr[t].o[c] + SumO(c, S \ {t})
\* no update lost: every counter is its initial value plus what was merged
NoneLost == \A c \in CounterNames : met[c] = op.pre[c] + SumO(c, Threads)
\* the threads that passed getLock = true / left it at its default
Locking == {t \in Threads : thr[t].pc # "idle" /\ thr[t].getLock}
Defaulting == {t \in Threads : thr[t].pc # "idle" /\ ~thr[t].getLock}

\* C17 as stated: merge(other) takes the lock: when threads call merge(other)
\* concurrently on the shared structure, their read-add-write sequences
\* never interleave and no update is lost.
C17_MergeTakesLock ==
    /\ \A t \in Defaulting : \A u \in Defaulting \ {t} :
          ~(InMerge(t) /\ InMerge(u))
    /\ (AllDone /\ Defaulting = Threads) => NoneLost

\* C17 amended: merge(other, getLock) takes the lock when getLock is true:
\* the read-add-write sequences of threads that pass getLock = true never
\* interleave, and when every thread passes it no update is lost.
C17_LockedMergeAtomic ==
    /\ \A t \in Locking : \A u \in Locking \ {t} :
          ~(InMerge(t) /\ InMerge(u))
    /\ \A t \in Locking : InMerge(t) => lock = t
    /\ (AllDone /\ Locking = Threads) => NoneLost

\* two threads that counted on the same counter have both merged under the
\* lock
C17_Witness ==
    /\ AllDone /\ Locking = Threads
    /\ \E c \in CounterNames : \A t \in Threads : thr[t].o[c] > 0

---------------------------------------------------------------------------
(* SamConfig::printReadName.  A name is a sequence of character codes.     *)

\* the longest QNAME that SAM allows
QnameMax == 255
\* names up to this length are tried with every choice of characters
MaxNameLen == 2
\* long names have lengths QnameMax - LongSlack .. QnameMax + LongSlack
LongSlack == 3

\* tab, space, '/', '1', '2', '@', 'A' and DEL
NameChars == {9, 32, 47, 49, 50, 64, 65, 127}
\* isspace in the C locale: tab, line feed, vertical tab, form feed,
\* carriage return and space
isspace(ch) == ch \in 9 .. 13 \/ ch = 32
\* the characters of [!-?A-~]
QnameChars == (33 .. 63) \cup (65 .. 126)

ShortNames == UNION {[1 .. n -> NameChars] : n \in 0 .. MaxNameLen}
LongNames ==
    {[i \in 1 .. n |-> 65] \o suf :
        n \in (QnameMax - LongSlack) .. (QnameMax + LongSlack),
        suf \in {<<>>, <<47, 49>>}}
Names == ShortNames \cup LongNames

\* a trailing "/1" or "/2" is not printed
MateStripped(nm) ==
    LET namelen == Len(nm)
    IN  IF /\ namelen >= 2
           /\ nm[namelen - 1] = 47
           /\ (nm[namelen] = 49 \/ nm[namelen] = 50)
        THEN namelen - 2 ELSE namelen

Truncated(namelen, trunc) ==
    IF trunc /\ namelen > QnameMax THEN QnameMax ELSE namelen

\* the loop returns at the first whitespace among the first namelen
\* characters (positions are 1-based here)
FirstSpace(nm, namelen) ==
    LET S == {i \in 1 .. namelen : isspace(nm[i])}
    IN  IF S = {} THEN namelen + 1
        ELSE CHOOSE i \in S : \A j \in S : i <= j

\* for(i < namelen) { if(isspace(name[i])) return; o.write(name[i]); }
WriteLoop(nm, namelen, o) == o \o SubSeq(nm, 1, FirstSpace(nm, namelen) - 1)

printReadName(o, nm, trunc) ==
    WriteLoop(nm, Truncated(MateStripped(nm), trunc), o)

NameFrame ==
    UNCHANGED <<matvars, bufmem, filled, bias_, sc, masks_, btvars, listvars,
                metvars>>

\* SamConfig::SamConfig(..., truncQname, ...)
NameInit ==
    /\ MatrixIdle /\ ListIdle /\ MetIdle
    /\ truncQname_ \in BOOLEAN
    /\ qname = <<>> /\ written = <<>>
    /\ op = OpInit /\ nops = 0

\* printReadName(o, name) on an empty output buffer
CallPrintReadName ==
    /\ \E nm \in Names :
          /\ qname' = nm
          /\ written' = printReadName(<<>>, nm, truncQname_)
    /\ op' = [OpInit EXCEPT !.name = "printReadName"]
    /\ UNCHANGED <<truncQname_, nops>>
    /\ NameFrame

NameNext ==
    \/ CallPrintReadName

SpecName == NameInit /\ [][NameNext]_vars

\* C18: for every read name and either setting of truncQname, what
\* printReadName writes satisfies [!-?A-~]{1,255}: 1 to 255 characters, each
\* with a code in 33..63 or 65..126.
C18_QnameValid ==
    op.name = "printReadName" =>
        /\ Len(written) \in 1 .. QnameMax
        /\ \A i \in 1 .. Len(written) : written[i] \in QnameChars

---------------------------------------------------------------------------
(* Termination of the backtrace walk.                                      *)

\* the most analyzeCell visits a walk from (r0, c0, H) can make
VisitBound == 2 * (start[1] + start[2] + 1)
\* the visits a walk standing at (row, col, ct) can still make: two for
\* every anti-diagonal down to the origin cell, one less once it has left H
VisitsLeft == 2 * (row + col) + (IF ct = H THEN 2 ELSE 1)

\* analyzeCell has an outcome at the current cell: one of its steps applies
HasOutcome ==
    \/ reportedThrough(masks_, row, col)
    \/ AtFloor(row, col, ct)
    \/ ~IsMaskSetCt(masks_, row, col, ct) /\ PredMask(sc, row, col, ct) = 0
    \/ IsMaskSetCt(masks_, row, col, ct)
          /\ Consulted(masks_, row, col, ct, 0) = 0
    \/ BitsOf(Consulted(masks_, row, col, ct, PredMask(sc, row, col, ct)),
              ct) # {}

\* C19: every backtrace walk terminates: from any start (r0, c0, H) and any
\* mask contents the walk reaches a terminal outcome (origin, empty,
\* reportedThru or boundary rejection) after at most 2 * (r0 + c0 + 1)
\* analyzeCell visits: the visits made never exceed the bound, and while the
\* walk is on the next visit has an outcome and the visits made plus the
\* visits the walk can still make stay within the bound.
C19_WalkTerminates ==
    /\ nvisit <= VisitBound
    /\ pc = "walk" =>
          /\ row \in Rows /\ col \in Cols
          /\ HasOutcome
          /\ nvisit + VisitsLeft <= VisitBound

\* a walk from a cell off the origin that ended one visit short of the bound
C19_Witness ==
    /\ pc \in {"succeeded", "failed"} /\ op.name = "analyzeCell"
    /\ start[1] + start[2] >= 1
    /\ nvisit = VisitBound - 1

---------------------------------------------------------------------------
(* The buffer's representation, its assertions and what it gives back.     *)

\* C22: in every state reachable from a newly constructed buffer by ensure,
\* reserveExact, resize, resizeExact and clear, size() <= capacity(), and
\* the storage pointer is not null whenever capacity() > 0.
C22_SizeWithinCapacity ==
    /\ size(LState) <= capacity(LState)
    /\ capacity(LState) > 0 => ptr(LState) # 0

\* resizeExact has grown a buffer that had storage, and the buffer is full
C22_Witness ==
    /\ lstat = "live" /\ op.name = "resizeExact"
    /\ capacity(op.pre) > 0 /\ capacity(LState) > capacity(op.pre)
    /\ size(LState) = capacity(LState)

\* the assertions that failed during the last call
FailedAsserts == {i \in 1 .. Len(ev) : ev[i].e = "assert"}
\* the addresses the last call handed to delete[]
Deletes == {i \in 1 .. Len(ev) : ev[i].e = "delete"}

\* C23: no assertion inside the private helpers (lazyInit, lazyInitExact,
\* alloc) fails when ensure, reserveExact, resize or resizeExact is called
\* with any argument >= 0 on a buffer in any reachable state, a
\* never-initialised one included.
C23_NoAssertFails == FailedAsserts = {}

\* C24: whenever free() releases the storage, on growth and in the
\* destructor, the address it hands to delete[] is the address new[]
\* returned for that block, whether that address was 16-byte aligned or not.
C24_FreeGivesBackNew == \A i \in Deletes : ev[i].ok

====
